---- MODULE Spec2Model ----
(***************************************************************************)
(* The bearer-token authorization layer of the Casting Agency API          *)
(* (src/auth.py) as it is applied to the endpoints of src/app.py.          *)
(*                                                                         *)
(* One request at a time walks through requires_auth.wrapper:              *)
(*   START -> token-extracted -> jwks-fetched -> token-verified            *)
(*         -> permission-checked -> GRANTED                                *)
(* and any step may end the request instead, either by abort(401) after an *)
(* AuthError (REJECTED) or by an exception the wrapper does not catch      *)
(* (CRASHED, which Flask answers with 500).                                *)
(***************************************************************************)
EXTENDS Naturals, Integers, Sequences, FiniteSets, TLC

VARIABLES
    pc,         \* position of the current request inside requires_auth.wrapper
    auth,       \* request.headers.get('Authorization', None): <<>> = None, <<s>> = string s
    permission, \* the permission string the endpoint was decorated with
    args,       \* request-derived arguments of the view (the path id)
    token,      \* token returned by get_token_auth_header (a word), <<>> before
    jwks,       \* <<keys>> once the key set was fetched, <<>> before
    jwt,        \* <<content>> of the bearer string once the verifier read it
    payload,    \* <<claims>> returned by verify_decode_jwt, <<>> before
    raised,     \* the exception raised inside the gate, as a result record
    resp,       \* who answered the request: "none", "operation", "401", "500"
    invoked,    \* calls f(payload, *args) made for this request
    decodes,    \* number of jwt.decode calls made for this request
    fetches,    \* number of key-set fetches (urlopen calls) made for this request
    view,       \* the view function the request is routed to
    body,       \* <<request.get_json()>> once the view read it, <<>> before
    db,         \* the committed rows of the Actor and Movie tables and their id sequences
    before,     \* db as it was when the request arrived
    response,   \* the response of the request: its status and its JSON body
    conc        \* the locals of the wrapper in each of the requests served at once

vars == <<pc, auth, permission, args, token, jwks, jwt, payload, raised, resp,
          invoked, decodes, fetches, view, body, db, before, response, conc>>

----------------------------------------------------------------------------
(* Bounds of the model *)

\* longest Authorization header value, counted in atoms
MaxHeaderLen == 3

\* most key records in a fetched key set
MaxKeys == 1

\* most actor ids the Actor table hands out
MaxActors == 2

\* most movie ids the Movie table hands out
MaxMovies == 1

\* requests that the server works on at the same time
MaxRequests == 2

----------------------------------------------------------------------------
(* Configuration: AUTH0_DOMAIN, ALGORITHMS, API_AUDIENCE *)

AUTH0_DOMAIN == "casting.auth0.com"
ALGORITHMS == "RS256"
API_AUDIENCE == "casting"

\* issuer='https://' + AUTH0_DOMAIN + '/'
Issuer == <<"https://", AUTH0_DOMAIN, "/">>

----------------------------------------------------------------------------
(* Strings of the Authorization header.  A header value is a sequence of   *)
(* atoms: a blank, or a piece of text without blanks.                      *)

Blank == " "
Atoms == {Blank, "Bearer", "BEARER", "Basic", "tok"}

\* str.lower() on one atom
LowerAtom(a) ==
    CASE a = "Bearer" -> "bearer"
      [] a = "BEARER" -> "bearer"
      [] a = "Basic"  -> "basic"
      [] OTHER        -> a

\* str.lower() on a word (a sequence of atoms written without blanks between)
Lower(w) == [i \in 1..Len(w) |-> LowerAtom(w[i])]

\* str.split(): the maximal runs of non-blank atoms, in order
RECURSIVE SplitFrom(_, _, _)
SplitFrom(s, i, cur) ==
    IF i > Len(s)
    THEN IF cur = <<>> THEN <<>> ELSE <<cur>>
    ELSE IF s[i] = Blank
         THEN IF cur = <<>>
              THEN SplitFrom(s, i + 1, <<>>)
              ELSE <<cur>> \o SplitFrom(s, i + 1, <<>>)
         ELSE SplitFrom(s, i + 1, Append(cur, s[i]))

Split(s) == SplitFrom(s, 1, <<>>)

HeaderStrings == UNION {[1..n -> Atoms] : n \in 0..MaxHeaderLen}

\* what request.headers.get('Authorization', None) can return
Headers == {<<>>} \cup {<<s>> : s \in HeaderStrings}

----------------------------------------------------------------------------
(* Results of the functions of auth.py: a return value or a raised         *)
(* exception.                                                              *)

NoError == [code |-> "", description |-> ""]

Return(v) ==
    [kind |-> "return", error |-> NoError, status_code |-> 0, value |-> <<v>>]

\* raise AuthError(error, status_code)
AuthError(code, description, status_code) ==
    [kind |-> "AuthError",
     error |-> [code |-> code, description |-> description],
     status_code |-> status_code, value |-> <<>>]

\* an exception that is not an AuthError
Raise(name) ==
    [kind |-> name, error |-> NoError, status_code |-> 0, value |-> <<>>]

NotRaised == [kind |-> "none", error |-> NoError, status_code |-> 0, value |-> <<>>]

----------------------------------------------------------------------------
(* get_token_auth_header(), on the value of the Authorization header *)

\* auth.split() and the checks on the parts
BearerToken(s) ==
    LET parts == Split(s) IN
    IF parts = <<>>
    THEN Raise("IndexError")
    ELSE IF Lower(parts[1]) # <<"bearer">>
    THEN AuthError("invalid_header",
                   "Authorization header must start with \"Bearer\".", 401)
    ELSE IF Len(parts) = 1
    THEN AuthError("invalid_header", "Token not found.", 401)
    ELSE IF Len(parts) > 2
    THEN AuthError("invalid_header",
                   "Authorization header must be bearer token.", 401)
    ELSE Return(parts[2])

\* the function with its missing-header check reporting a malformed header
get_token_auth_header_WrongCode(a) ==
    IF a = <<>> \/ a[1] = <<>>
    THEN AuthError("invalid_header", "Authorization header is expected.", 401)
    ELSE BearerToken(a[1])

get_token_auth_header(a) ==
    IF a = <<>> \/ a[1] = <<>>
    THEN AuthError("authorization_header_missing",
                   "Authorization header is expected.", 401)
    ELSE BearerToken(a[1])

----------------------------------------------------------------------------
(* check_permissions(permission, payload).  A claim set is a function from *)
(* claim names to values; a claim the token lacks is not in its domain.    *)

\* the function without its membership test
check_permissions_NoMembership(p, claims) ==
    IF "permissions" \notin DOMAIN claims
    THEN AuthError("invalid_claims", "Permissions not included in JWT.", 400)
    ELSE Return(TRUE)

\* the function raising the same error in both cases
check_permissions_SameError(p, claims) ==
    IF "permissions" \notin DOMAIN claims
    THEN AuthError("unauthorized", "Permission not found.", 401)
    ELSE IF p \notin claims["permissions"]
    THEN AuthError("unauthorized", "Permission not found.", 401)
    ELSE Return(TRUE)

check_permissions(p, claims) ==
    IF "permissions" \notin DOMAIN claims
    THEN AuthError("invalid_claims", "Permissions not included in JWT.", 400)
    ELSE IF p \notin claims["permissions"]
    THEN AuthError("unauthorized", "Permission not found.", 401)
    ELSE Return(TRUE)

----------------------------------------------------------------------------
(* Key sets and tokens *)

KeyIds == {"k1", "k2"}

\* one record of jwks['keys']; its modulus stands for the key material
Key(k) == [kty |-> "RSA", kid |-> k, use |-> "sig", n |-> k, e |-> "AQAB"]

KeySets == UNION {[1..n -> {Key(k) : k \in KeyIds}] : n \in 0..MaxKeys}

\* permission strings a token may carry
Permissions == {"get:actors", "delete:actors"}

\* unverified headers of a token: the key identifier may be missing
JwtHeaders ==
    [alg : {ALGORITHMS, "HS256"}] \cup [alg : {ALGORITHMS, "HS256"}, kid : KeyIds]

\* claim sets of a token: the permissions claim may be missing
JwtClaims ==
    [aud : {API_AUDIENCE, "other-api"},
     iss : {Issuer, <<"https://", AUTH0_DOMAIN>>}]
    \cup
    [aud : {API_AUDIENCE, "other-api"},
     iss : {Issuer, <<"https://", AUTH0_DOMAIN>>},
     permissions : SUBSET Permissions]

\* a bearer string that is no JWT at all
MalformedJwt ==
    [malformed |-> TRUE, header |-> [alg |-> ""], signer |-> "",
     expired |-> FALSE, claims |-> [aud |-> "", iss |-> <<>>]]

\* what the bearer string "tok" may hold: signer is the key material it was
\* signed with, expired tells whether its exp claim lies in the past
Jwts ==
    {MalformedJwt} \cup
    [malformed : {FALSE}, header : JwtHeaders, signer : KeyIds \cup {"forged"},
     expired : BOOLEAN, claims : JwtClaims]

\* the content of the token string that get_token_auth_header returned
Parse(tok, content) == IF tok = <<"tok">> THEN content ELSE MalformedJwt

----------------------------------------------------------------------------
(* jwt.decode(token, rsa_key, algorithms, audience, issuer): the signature *)
(* is verified first, then the expiry, the audience and the issuer.        *)

jwt_decode(t, rsa_key) ==
    IF t.header.alg # ALGORITHMS
    THEN Raise("JWTError")
    ELSE IF t.signer # rsa_key.n
    THEN Raise("JWTError")
    ELSE IF t.expired
    THEN Raise("ExpiredSignatureError")
    ELSE IF t.claims.aud # API_AUDIENCE
    THEN Raise("JWTClaimsError")
    ELSE IF t.claims.iss # Issuer
    THEN Raise("JWTClaimsError")
    ELSE Return(t.claims)

\* the loop taking the first record whatever its kid
RsaKeyFor_AnyKey(kid, keys) ==
    IF keys = <<>>
    THEN <<>>
    ELSE <<[kty |-> keys[1].kty, kid |-> keys[1].kid, use |-> keys[1].use,
            n |-> keys[1].n, e |-> keys[1].e]>>

\* the for loop over jwks['keys']: <<>> is the empty rsa_key, the last
\* record with the token's kid wins
RsaKeyFor(kid, keys) ==
    LET hits == {i \in 1..Len(keys) : keys[i].kid = kid} IN
    IF hits = {}
    THEN <<>>
    ELSE LET i == CHOOSE j \in hits : \A h \in hits : h <= j
             key == keys[i]
         IN  <<[kty |-> key.kty, kid |-> key.kid, use |-> key.use,
                n |-> key.n, e |-> key.e]>>

\* the try/except without its JWTClaimsError clause
DecodeOrFail_NoClaimsClause(t, rsa_key) ==
    LET r == jwt_decode(t, rsa_key) IN
    CASE r.kind = "return" -> r
      [] r.kind = "ExpiredSignatureError" ->
            AuthError("token_expired", "Token expired.", 401)
      [] OTHER ->
            AuthError("invalid_header", "Unable to parse authentication token.", 400)

\* the try/except without its ExpiredSignatureError clause
DecodeOrFail_NoExpiredClause(t, rsa_key) ==
    LET r == jwt_decode(t, rsa_key) IN
    CASE r.kind = "return" -> r
      [] r.kind = "JWTClaimsError" ->
            AuthError("invalid_claims",
                "Incorrect claims. Please, check the audience and issuer.", 401)
      [] OTHER ->
            AuthError("invalid_header", "Unable to parse authentication token.", 400)

\* the try/except around jwt.decode
DecodeOrFail(t, rsa_key) ==
    LET r == jwt_decode(t, rsa_key) IN
    CASE r.kind = "return" -> r
      [] r.kind = "ExpiredSignatureError" ->
            AuthError("token_expired", "Token expired.", 401)
      [] r.kind = "JWTClaimsError" ->
            AuthError("invalid_claims",
                "Incorrect claims. Please, check the audience and issuer.", 401)
      [] OTHER ->
            AuthError("invalid_header", "Unable to parse authentication token.", 400)

\* verify_decode_jwt(token) after the key set was fetched: its result and
\* the number of jwt.decode calls it made
verify_decode_jwt(t, keys) ==
    IF t.malformed
    THEN [res |-> Raise("JWTError"), decode_calls |-> 0]
    ELSE IF "kid" \notin DOMAIN t.header
    THEN [res |-> AuthError("invalid_header", "Authorization malformed.", 401),
          decode_calls |-> 0]
    ELSE LET rsa_key == RsaKeyFor(t.header.kid, keys) IN
         IF rsa_key # <<>>
         THEN [res |-> DecodeOrFail(t, rsa_key[1]), decode_calls |-> 1]
         ELSE [res |-> AuthError("invalid_header",
                                 "Unable to find the appropriate key.", 400),
               decode_calls |-> 0]

----------------------------------------------------------------------------
(* The catalog: models.py.  A table is a function from the ids of its rows *)
(* to the rows; the id sequence counts the ids handed out so far.          *)

Names == {"Joe", "JOE", "Ann"}
Titles == {"Jaws", "JAWS"}
DateStrings == {"November 19, 1992", "soon"}
GenderStrings == {"f", "M", "Q"}

\* func.lower() and str.lower() on a name or a title
LowerText(x) ==
    CASE x = "Joe"  -> "joe"
      [] x = "JOE"  -> "joe"
      [] x = "Ann"  -> "ann"
      [] x = "Jaws" -> "jaws"
      [] x = "JAWS" -> "jaws"
      [] OTHER      -> x

\* str.upper() on a gender
UpperText(x) ==
    CASE x = "f" -> "F"
      [] x = "m" -> "M"
      [] x = "x" -> "X"
      [] OTHER   -> x

\* date_valid(date_str): dateutil parses the string or raises ValueError
date_valid(d) == d = "November 19, 1992"

\* the Date column: the value the database keeps for a date string, as
\* format() prints it with strftime('%Y-%m-%d')
ToDate(d) == IF d = "November 19, 1992" THEN "1992-11-19" ELSE d

NoRows == [i \in {} |-> 0]

EmptyDb == [actors |-> NoRows, movies |-> NoRows, actor_seq |-> 0, movie_seq |-> 0]

\* Actor.is_duplicate(): a stored actor has the name, ignoring case
actor_is_duplicate(d, name) ==
    \E i \in DOMAIN d.actors : LowerText(d.actors[i].name) = LowerText(name)

\* Movie.is_duplicate(): a stored movie has the title, ignoring case
movie_is_duplicate(d, title) ==
    \E i \in DOMAIN d.movies : LowerText(d.movies[i].title) = LowerText(title)

\* the unique=True constraint of Actor.name, checked at commit for row id
actor_name_taken(d, id, name) ==
    \E i \in DOMAIN d.actors : i # id /\ d.actors[i].name = name

\* the unique=True constraint of Movie.title, checked at commit for row id
movie_title_taken(d, id, title) ==
    \E i \in DOMAIN d.movies : i # id /\ d.movies[i].title = title

\* a table with row id set to row
Put(table, id, row) ==
    [i \in DOMAIN table \cup {id} |-> IF i = id THEN row ELSE table[i]]

\* a table without row id
Remove(table, id) == [i \in DOMAIN table \ {id} |-> table[i]]

\* Actor.format() and Movie.format()
FormatActor(id, a) ==
    [actor_id |-> id, name |-> a.name, birth_date |-> a.birth_date,
     gender |-> a.gender]

FormatMovie(id, m) ==
    [movie_id |-> id, title |-> m.title, release_date |-> m.release_date]

----------------------------------------------------------------------------
(* Responses: the error handlers of app.py and jsonify of the views *)

\* the handlers registered with @app.errorhandler for 422, 401, 400, 404
ErrorMessage(status) ==
    CASE status = 422 -> "unprocessable"
      [] status = 401 -> "unauthorized"
      [] status = 400 -> "bad request"
      [] status = 404 -> "resource not found"

\* abort(status): the JSON body and status the handler of that status returns
Abort(status) ==
    [status |-> status,
     json |-> <<[success |-> FALSE, error |-> status,
                 message |-> ErrorMessage(status)]>>]

\* return jsonify({'success': True, key: value})
Jsonify(key, value) ==
    [status |-> 200, json |-> <<[success |-> TRUE, key |-> key, value |-> value]>>]

\* an exception no handler is registered for: Flask's 500 page, no JSON
InternalServerError == [status |-> 500, json |-> <<>>]

NoResponse == [status |-> 0, json |-> <<>>]

\* what a view leaves behind: its response and the committed rows.  Changes
\* of the session that were not committed are dropped with the session when
\* the request ends.
Done(r, d) == [response |-> r, db |-> d]

----------------------------------------------------------------------------
(* Request bodies: body.get(field, None) is <<>> for None, <<v>> for v *)

Opt(S) == {<<>>} \cup {<<x>> : x \in S}

ActorBodies == [name : Opt(Names), birth_date : Opt(DateStrings),
                gender : Opt(GenderStrings)]

MovieBodies == [title : Opt(Titles), release_date : Opt(DateStrings)]

\* the gender check of create_actor and modify_actor
gender_valid(g) ==
    ~ (UpperText(g) # "M" /\ UpperText(g) # "F" /\ UpperText(g) # "X")

----------------------------------------------------------------------------
(* The views of app.py, called with the request body b and the path id *)

get_all_actors(d) ==
    IF DOMAIN d.actors = {}
    THEN Done(Abort(404), d)
    ELSE Done(Jsonify("actors",
                  [i \in DOMAIN d.actors |-> FormatActor(i, d.actors[i])]), d)

create_actor(d, b) ==
    IF b.name = <<>> \/ b.birth_date = <<>> \/ b.gender = <<>>
    THEN Done(Abort(422), d)
    ELSE IF ~date_valid(b.birth_date[1])
    THEN Done(Abort(422), d)
    ELSE IF ~gender_valid(b.gender[1])
    THEN Done(Abort(422), d)
    ELSE IF actor_is_duplicate(d, b.name[1])
    THEN Done(Abort(422), d)
    ELSE LET id == d.actor_seq + 1
             actor == [name |-> b.name[1],
                       birth_date |-> ToDate(b.birth_date[1]),
                       gender |-> UpperText(b.gender[1])]
         IN  Done(Jsonify("actor", FormatActor(id, actor)),
                  [d EXCEPT !.actors = Put(d.actors, id, actor),
                            !.actor_seq = id])

\* the view keeping the fields it assigned before it found the invalid one
modify_actor_KeepsAssigned(d, id, b) ==
    IF id \notin DOMAIN d.actors
    THEN Done(Abort(404), d)
    ELSE LET a0 == d.actors[id]
             a1 == IF b.name # <<>> THEN [a0 EXCEPT !.name = b.name[1]] ELSE a0
             a2 == IF b.birth_date # <<>> /\ date_valid(b.birth_date[1])
                   THEN [a1 EXCEPT !.birth_date = ToDate(b.birth_date[1])]
                   ELSE a1
             kept == [d EXCEPT !.actors = Put(d.actors, id, a2)]
         IN
         IF b.birth_date # <<>> /\ ~date_valid(b.birth_date[1])
         THEN Done(Abort(422), kept)
         ELSE IF b.gender # <<>> /\ ~gender_valid(b.gender[1])
         THEN Done(Abort(422), kept)
         ELSE LET a3 == IF b.gender # <<>>
                        THEN [a2 EXCEPT !.gender = UpperText(b.gender[1])]
                        ELSE a2
              IN  Done(Jsonify("actor", FormatActor(id, a3)),
                       [d EXCEPT !.actors = Put(d.actors, id, a3)])

modify_actor(d, id, b) ==
    IF id \notin DOMAIN d.actors
    THEN Done(Abort(404), d)
    ELSE LET a0 == d.actors[id]
             a1 == IF b.name # <<>> THEN [a0 EXCEPT !.name = b.name[1]] ELSE a0
         IN
         IF b.birth_date # <<>> /\ ~date_valid(b.birth_date[1])
         THEN Done(Abort(422), d)
         ELSE LET a2 == IF b.birth_date # <<>>
                        THEN [a1 EXCEPT !.birth_date = ToDate(b.birth_date[1])]
                        ELSE a1
              IN
              IF b.gender # <<>> /\ ~gender_valid(b.gender[1])
              THEN Done(Abort(422), d)
              ELSE LET a3 == IF b.gender # <<>>
                             THEN [a2 EXCEPT !.gender = UpperText(b.gender[1])]
                             ELSE a2
                   IN
                   IF actor_name_taken(d, id, a3.name)
                   THEN Done(InternalServerError, d)
                   ELSE Done(Jsonify("actor", FormatActor(id, a3)),
                             [d EXCEPT !.actors = Put(d.actors, id, a3)])

\* the view without its check that the actor exists
delete_actor_NoCheck(d, id) ==
    Done(Jsonify("delete", id), [d EXCEPT !.actors = Remove(d.actors, id)])

delete_actor(d, id) ==
    IF id \notin DOMAIN d.actors
    THEN Done(Abort(404), d)
    ELSE Done(Jsonify("delete", id), [d EXCEPT !.actors = Remove(d.actors, id)])

get_all_movies(d) ==
    IF DOMAIN d.movies = {}
    THEN Done(Abort(404), d)
    ELSE Done(Jsonify("movies",
                  [i \in DOMAIN d.movies |-> FormatMovie(i, d.movies[i])]), d)

create_movie(d, b) ==
    IF b.title = <<>> \/ b.release_date = <<>>
    THEN Done(Abort(422), d)
    ELSE IF ~date_valid(b.release_date[1])
    THEN Done(Abort(422), d)
    ELSE IF movie_is_duplicate(d, b.title[1])
    THEN Done(Abort(422), d)
    ELSE LET id == d.movie_seq + 1
             movie == [title |-> b.title[1],
                       release_date |-> ToDate(b.release_date[1])]
         IN  Done(Jsonify("movie", FormatMovie(id, movie)),
                  [d EXCEPT !.movies = Put(d.movies, id, movie),
                            !.movie_seq = id])

modify_movie(d, id, b) ==
    IF id \notin DOMAIN d.movies
    THEN Done(Abort(404), d)
    ELSE LET m0 == d.movies[id]
             m1 == IF b.title # <<>> THEN [m0 EXCEPT !.title = b.title[1]] ELSE m0
         IN
         IF b.release_date # <<>> /\ ~date_valid(b.release_date[1])
         THEN Done(Abort(422), d)
         ELSE LET m2 == IF b.release_date # <<>>
                        THEN [m1 EXCEPT !.release_date = ToDate(b.release_date[1])]
                        ELSE m1
              IN
              IF movie_title_taken(d, id, m2.title)
              THEN Done(InternalServerError, d)
              ELSE Done(Jsonify("movie", FormatMovie(id, m2)),
                        [d EXCEPT !.movies = Put(d.movies, id, m2)])

delete_movie(d, id) ==
    IF id \notin DOMAIN d.movies
    THEN Done(Abort(404), d)
    ELSE Done(Jsonify("delete", id), [d EXCEPT !.movies = Remove(d.movies, id)])

\* the bodies a view may be sent; a view that reads none gets <<>>
BodiesOf(v) ==
    CASE v \in {"create_actor", "modify_actor"} -> {<<b>> : b \in ActorBodies}
      [] v \in {"create_movie", "modify_movie"} -> {<<b>> : b \in MovieBodies}
      [] OTHER -> {<<>>}

\* f(payload, *args, **kwargs) for the view function v
CallView(v, d, a, b) ==
    CASE v = "get_all_actors" -> get_all_actors(d)
      [] v = "create_actor"   -> create_actor(d, b[1])
      [] v = "modify_actor"   -> modify_actor(d, a[1], b[1])
      [] v = "delete_actor"   -> delete_actor(d, a[1])
      [] v = "get_all_movies" -> get_all_movies(d)
      [] v = "create_movie"   -> create_movie(d, b[1])
      [] v = "modify_movie"   -> modify_movie(d, a[1], b[1])
      [] v = "delete_movie"   -> delete_movie(d, a[1])

----------------------------------------------------------------------------
(* The protected endpoints of app.py that the requests go to: the view,    *)
(* the permission of @requires_auth and the arguments taken from the path. *)

Ids == {1}

Routes ==
    {[view |-> "get_all_actors", permission |-> "get:actors", args |-> <<>>]}
    \cup {[view |-> "delete_actor", permission |-> "delete:actors",
           args |-> <<i>>] : i \in Ids}

\* every endpoint of app.py, with the path ids the tables can hold and one more
ActorIds == 1..(MaxActors + 1)
MovieIds == 1..(MaxMovies + 1)

AllRoutes ==
    {[view |-> "get_all_actors", permission |-> "get:actors", args |-> <<>>],
     [view |-> "create_actor", permission |-> "post:actors", args |-> <<>>],
     [view |-> "get_all_movies", permission |-> "get:movies", args |-> <<>>],
     [view |-> "create_movie", permission |-> "post:movies", args |-> <<>>]}
    \cup {[view |-> "modify_actor", permission |-> "patch:actors",
           args |-> <<i>>] : i \in ActorIds}
    \cup {[view |-> "delete_actor", permission |-> "delete:actors",
           args |-> <<i>>] : i \in ActorIds}
    \cup {[view |-> "modify_movie", permission |-> "patch:movies",
           args |-> <<i>>] : i \in MovieIds}
    \cup {[view |-> "delete_movie", permission |-> "delete:movies",
           args |-> <<i>>] : i \in MovieIds}

----------------------------------------------------------------------------
(* Requests served at the same time.  Each call of the wrapper has its own *)
(* locals (token, payload, and jsonurl, jwks, rsa_key inside               *)
(* verify_decode_jwt); request.headers is the header of the calling        *)
(* request; the module assigns its globals once, at import.                *)

Requests == 1..MaxRequests

\* the locals of a wrapper call that has not started
ConcIdle ==
    [pc |-> "idle", auth |-> <<>>, permission |-> "", token |-> <<>>,
     served |-> <<>>, jwks |-> <<>>, fetches |-> 0, jwt |-> <<>>,
     payload |-> <<>>, raised |-> NotRaised, invoked |-> <<>>]

----------------------------------------------------------------------------
(* requires_auth.wrapper, one step at a time *)

Init ==
    /\ pc = "idle"
    /\ auth = <<>>
    /\ permission = ""
    /\ args = <<>>
    /\ token = <<>>
    /\ jwks = <<>>
    /\ jwt = <<>>
    /\ payload = <<>>
    /\ raised = NotRaised
    /\ resp = "none"
    /\ invoked = <<>>
    /\ decodes = 0
    /\ fetches = 0
    /\ view = ""
    /\ body = <<>>
    /\ db = EmptyDb
    /\ before = EmptyDb
    /\ response = NoResponse
    /\ conc = [i \in Requests |-> ConcIdle]

\* a request with Authorization header h arrives at route r; a POST arrives
\* only while its table has an id left to hand out
Receive(h, r) ==
    /\ pc = "idle"
    /\ r.view = "create_actor" => db.actor_seq < MaxActors
    /\ r.view = "create_movie" => db.movie_seq < MaxMovies
    /\ pc' = "START"
    /\ auth' = h
    /\ permission' = r.permission
    /\ args' = r.args
    /\ view' = r.view
    /\ before' = db
    /\ UNCHANGED <<token, jwks, jwt, payload, raised, resp, invoked, decodes,
                   fetches, body, db, response, conc>>

\* an exception leaves the wrapper: "except AuthError: abort(401)" turns an
\* AuthError into the 401 response, any other exception is not caught
Leave(r) ==
    /\ raised' = r
    /\ pc' = IF r.kind = "AuthError" THEN "REJECTED" ELSE "CRASHED"
    /\ resp' = IF r.kind = "AuthError" THEN "401" ELSE "500"
    /\ response' = IF r.kind = "AuthError" THEN Abort(401) ELSE InternalServerError

\* the wrapper opening the key-set URL before it looks at the header
ExtractToken_FetchFirst ==
    /\ pc = "START"
    /\ fetches' = fetches + 1
    /\ LET r == get_token_auth_header(auth) IN
       IF r.kind = "return"
       THEN /\ token' = r.value[1]
            /\ pc' = "token-extracted"
            /\ UNCHANGED <<raised, resp, response>>
       ELSE /\ Leave(r)
            /\ UNCHANGED token
    /\ UNCHANGED <<auth, permission, args, jwks, jwt, payload, invoked, decodes,
                   view, body, db, before, conc>>

\* token = get_token_auth_header()
ExtractToken ==
    /\ pc = "START"
    /\ LET r == get_token_auth_header(auth) IN
       IF r.kind = "return"
       THEN /\ token' = r.value[1]
            /\ pc' = "token-extracted"
            /\ UNCHANGED <<raised, resp, response>>
       ELSE /\ Leave(r)
            /\ UNCHANGED token
    /\ UNCHANGED <<auth, permission, args, jwks, jwt, payload, invoked, decodes,
                   fetches, view, body, db, before, conc>>

\* verify_decode_jwt: urlopen, read and json.loads deliver the key set
FetchJwks(keys) ==
    /\ pc = "token-extracted"
    /\ jwks' = <<keys>>
    /\ fetches' = fetches + 1
    /\ pc' = "jwks-fetched"
    /\ UNCHANGED <<auth, permission, args, token, jwt, payload, raised, resp,
                   invoked, decodes, view, body, db, before, response, conc>>

\* verify_decode_jwt: urlopen, read or json.loads raises
FetchJwksFails ==
    /\ pc = "token-extracted"
    /\ fetches' = fetches + 1
    /\ Leave(Raise("URLError"))
    /\ UNCHANGED <<auth, permission, args, token, jwks, jwt, payload, invoked,
                   decodes, view, body, db, before, conc>>

\* verify_decode_jwt: the rest, on the token string whose content is c
VerifyToken(c) ==
    /\ pc = "jwks-fetched"
    /\ LET t == Parse(token, c)
           v == verify_decode_jwt(t, jwks[1])
       IN  /\ jwt' = <<t>>
           /\ decodes' = decodes + v.decode_calls
           /\ IF v.res.kind = "return"
              THEN /\ payload' = v.res.value
                   /\ pc' = "token-verified"
                   /\ UNCHANGED <<raised, resp, response>>
              ELSE /\ Leave(v.res)
                   /\ UNCHANGED payload
    /\ UNCHANGED <<auth, permission, args, token, jwks, invoked, fetches, view,
                   body, db, before, conc>>

\* the wrapper checking the permission only after it ran the view
CheckPermission_AfterView ==
    /\ pc = "token-verified"
    /\ LET r == check_permissions(permission, payload[1]) IN
       IF r.kind = "return"
       THEN /\ pc' = "permission-checked"
            /\ UNCHANGED <<raised, resp, response, db>>
       ELSE /\ Leave(r)
            /\ \E b \in BodiesOf(view) : db' = CallView(view, db, args, b).db
    /\ UNCHANGED <<auth, permission, args, token, jwks, jwt, payload, invoked,
                   decodes, fetches, view, body, before, conc>>

\* check_permissions(permission, payload)
CheckPermission ==
    /\ pc = "token-verified"
    /\ LET r == check_permissions(permission, payload[1]) IN
       IF r.kind = "return"
       THEN /\ pc' = "permission-checked"
            /\ UNCHANGED <<raised, resp, response>>
       ELSE Leave(r)
    /\ UNCHANGED <<auth, permission, args, token, jwks, jwt, payload, invoked,
                   decodes, fetches, view, body, db, before, conc>>

\* the call made with the permissions claim filtered out of the payload
WrapperCall_Filtered(pl, a) ==
    [payload |-> [c \in DOMAIN pl \ {"permissions"} |-> pl[c]], args |-> a]

\* the call f(payload, *args, **kwargs) as the wrapper makes it
WrapperCall(pl, a) == [payload |-> pl, args |-> a]

\* return f(payload, *args, **kwargs): the view runs on the request body b
Invoke(b) ==
    /\ pc = "permission-checked"
    /\ invoked' = Append(invoked, WrapperCall(payload[1], args))
    /\ resp' = "operation"
    /\ pc' = "GRANTED"
    /\ body' = b
    /\ LET r == CallView(view, db, args, b) IN
       /\ db' = r.db
       /\ response' = r.response
    /\ UNCHANGED <<auth, permission, args, token, jwks, jwt, payload, raised,
                   decodes, fetches, view, before, conc>>

\* the response is sent; the next request starts from scratch
Finish ==
    /\ pc \in {"GRANTED", "REJECTED", "CRASHED"}
    /\ pc' = "idle"
    /\ auth' = <<>>
    /\ permission' = ""
    /\ args' = <<>>
    /\ token' = <<>>
    /\ jwks' = <<>>
    /\ jwt' = <<>>
    /\ payload' = <<>>
    /\ raised' = NotRaised
    /\ resp' = "none"
    /\ invoked' = <<>>
    /\ decodes' = 0
    /\ fetches' = 0
    /\ view' = ""
    /\ body' = <<>>
    /\ before' = db
    /\ response' = NoResponse
    /\ UNCHANGED <<db, conc>>

Next ==
    \/ \E h \in Headers, r \in Routes : Receive(h, r)
    \/ ExtractToken
    \/ \E keys \in KeySets : FetchJwks(keys)
    \/ FetchJwksFails
    \/ \E c \in Jwts : VerifyToken(c)
    \/ CheckPermission
    \/ \E b \in BodiesOf(view) : Invoke(b)
    \/ Finish

Spec == Init /\ [][Next]_vars

----------------------------------------------------------------------------
(* The catalog behind the gate: requests to every endpoint of app.py, sent *)
(* without header or with a bearer token of one of two roles.              *)

AllPermissions ==
    {"get:actors", "post:actors", "patch:actors", "delete:actors",
     "get:movies", "post:movies", "patch:movies", "delete:movies"}

AppHeaders == {<<>>, <<<<"Bearer", Blank, "tok">>>>}

AppKeySets == {<<Key("k1")>>}

\* valid tokens of a role with every permission and of a role that may only read
AppJwts ==
    [malformed : {FALSE}, header : {[alg |-> ALGORITHMS, kid |-> "k1"]},
     signer : {"k1"}, expired : {FALSE},
     claims : [aud : {API_AUDIENCE}, iss : {Issuer},
               permissions : {AllPermissions, {"get:actors", "get:movies"}}]]

NextApp ==
    \/ \E h \in AppHeaders, r \in AllRoutes : Receive(h, r)
    \/ ExtractToken
    \/ \E keys \in AppKeySets : FetchJwks(keys)
    \/ FetchJwksFails
    \/ \E c \in AppJwts : VerifyToken(c)
    \/ CheckPermission
    \/ \E b \in BodiesOf(view) : Invoke(b)
    \/ Finish

SpecApp == Init /\ [][NextApp]_vars

----------------------------------------------------------------------------
(* Properties of the gate *)

\* the request went through the stage that starts at position p
Past(p) ==
    CASE p = "START"            -> pc \notin {"idle", "START"}
      [] p = "jwks-fetched"     -> jwt # <<>>
      [] p = "token-verified"   -> payload # <<>> /\ pc # "token-verified"

\* the verified claim set carries the permission of the endpoint
Permitted ==
    /\ "permissions" \in DOMAIN payload[1]
    /\ permission \in payload[1]["permissions"]

\* the gate rejected with this AuthError and the view was not called
RejectedWith(code, status_code) ==
    /\ pc = "REJECTED"
    /\ raised.kind = "AuthError"
    /\ raised.error.code = code
    /\ raised.status_code = status_code
    /\ resp = "401"
    /\ invoked = <<>>

\* C1: the protected operation is invoked only with a verified claim set
\* whose permissions contain the required permission string; once the
\* permission check ran on any other claim set the request is rejected and
\* the operation was not called.
C1_OperationNeedsPermission ==
    /\ invoked # <<>> => payload # <<>> /\ Permitted
    /\ Past("token-verified") /\ ~Permitted =>
          pc = "REJECTED" /\ resp = "401" /\ invoked = <<>>

C1_Witness ==
    /\ pc = "REJECTED"
    /\ payload # <<>>
    /\ "permissions" \in DOMAIN payload[1]
    /\ payload[1]["permissions"] # {}
    /\ permission \notin payload[1]["permissions"]

\* C2: on success the operation is called exactly once, with the claim set
\* of the token unchanged as first argument and the request's arguments
\* behind it; it is called at no other time.
C2_CalledOnceWithClaims ==
    /\ pc = "GRANTED" =>
          /\ Len(invoked) = 1
          /\ invoked[1].payload = jwt[1].claims
          /\ invoked[1].args = args
    /\ pc # "GRANTED" => invoked = <<>>

C2_Witness ==
    /\ pc = "GRANTED"
    /\ args = <<1>>
    /\ invoked = <<[payload |-> jwt[1].claims, args |-> <<1>>]>>
    /\ jwt[1].claims["permissions"] = Permissions

\* C3: a request without Authorization header is rejected by the token
\* extraction with authorization_header_missing, status 401, and the
\* operation is not called.
C3_MissingHeaderRejected ==
    Past("START") /\ auth = <<>> =>
        RejectedWith("authorization_header_missing", 401)

C3_Witness ==
    /\ pc = "REJECTED"
    /\ auth = <<>>
    /\ permission = "delete:actors"

\* C4: for a header that is present (a value that is not empty, which is
\* what "not auth" lets through), extraction returns the second part when
\* the header has exactly two parts and the first is "bearer" in any case,
\* and rejects with invalid_header for every other header value.
C4_PresentHeaderClaim ==
    Past("START") /\ auth # <<>> /\ auth[1] # <<>> =>
        LET parts == Split(auth[1]) IN
        IF Len(parts) = 2 /\ Lower(parts[1]) = <<"bearer">>
        THEN token = parts[2]
        ELSE /\ pc = "REJECTED"
             /\ raised.kind = "AuthError"
             /\ raised.error.code = "invalid_header"

\* the token's key identifier names no record of the fetched key set
KidUnknown ==
    /\ ~jwt[1].malformed
    /\ "kid" \in DOMAIN jwt[1].header
    /\ \A i \in 1..Len(jwks[1]) : jwks[1][i].kid # jwt[1].header["kid"]

\* C5: a token whose key identifier matches no record of the fetched key
\* set is rejected with invalid_header, "Unable to find the appropriate
\* key.", without any call of jwt.decode and without calling the operation.
C5_UnknownKeyRejected ==
    Past("jwks-fetched") /\ KidUnknown =>
        /\ RejectedWith("invalid_header", 400)
        /\ raised.error.description = "Unable to find the appropriate key."
        /\ decodes = 0

C5_Witness ==
    /\ pc = "REJECTED"
    /\ jwt # <<>>
    /\ KidUnknown
    /\ jwks[1] # <<>>
    /\ jwt[1].signer = jwks[1][1].n

\* the token's audience or issuer claim is not the configured one
ClaimsMismatch ==
    /\ ~jwt[1].malformed
    /\ \/ jwt[1].claims.aud # API_AUDIENCE
       \/ jwt[1].claims.iss # Issuer

\* the token's key is in the key set and its signature verifies under the
\* configured algorithm
SignatureVerifies ==
    /\ ~jwt[1].malformed
    /\ jwt[1].header.alg = ALGORITHMS
    /\ "kid" \in DOMAIN jwt[1].header
    /\ \E i \in 1..Len(jwks[1]) :
          /\ jwks[1][i].kid = jwt[1].header["kid"]
          /\ jwks[1][i].n = jwt[1].signer

\* C6 as claimed: every token whose audience or issuer differs from the
\* configuration is rejected with invalid_claims.
C6_MismatchClaim ==
    Past("jwks-fetched") /\ ClaimsMismatch =>
        /\ pc = "REJECTED"
        /\ raised.error.code = "invalid_claims"
        /\ invoked = <<>>

\* C6 as amended: every token whose audience or issuer differs from the
\* configuration is rejected and the operation is never called; the code is
\* invalid_claims when the token's key is found, its signature verifies and
\* it has not expired.
C6_MismatchRejected ==
    Past("jwks-fetched") /\ ClaimsMismatch =>
        /\ pc = "REJECTED"
        /\ resp = "401"
        /\ payload = <<>>
        /\ invoked = <<>>
        /\ SignatureVerifies /\ ~jwt[1].expired =>
              RejectedWith("invalid_claims", 401)

C6_Witness ==
    /\ jwt # <<>>
    /\ SignatureVerifies
    /\ ~jwt[1].expired
    /\ jwt[1].claims.aud = API_AUDIENCE
    /\ jwt[1].claims.iss # Issuer
    /\ RejectedWith("invalid_claims", 401)

\* the token's key identifier names a record of the fetched key set
KidFound ==
    /\ ~jwt[1].malformed
    /\ "kid" \in DOMAIN jwt[1].header
    /\ \E i \in 1..Len(jwks[1]) : jwks[1][i].kid = jwt[1].header["kid"]

\* C7 as claimed: every expired token whose key is found in the key set is
\* rejected with token_expired, status 401.
C7_ExpiredClaim ==
    Past("jwks-fetched") /\ KidFound /\ jwt[1].expired =>
        RejectedWith("token_expired", 401)

\* C7 as amended: every expired token whose key is found in the key set and
\* whose signature verifies under the configured algorithm is rejected with
\* token_expired, status 401, and the operation is never called.
C7_ExpiredRejected ==
    Past("jwks-fetched") /\ SignatureVerifies /\ jwt[1].expired =>
        RejectedWith("token_expired", 401)

C7_Witness ==
    /\ jwt # <<>>
    /\ SignatureVerifies
    /\ jwt[1].expired
    /\ jwt[1].claims.aud # API_AUDIENCE
    /\ RejectedWith("token_expired", 401)

\* C8: a malformed token, a token header without key identifier, an
\* unsupported algorithm and a bad signature each make the verifier fail
\* with an AuthError of code invalid_header.
C8_StructuralFailureClaim ==
    /\ Past("jwks-fetched")
    /\ \/ jwt[1].malformed
       \/ "kid" \notin DOMAIN jwt[1].header
       \/ jwt[1].header.alg # ALGORITHMS
       \/ ~SignatureVerifies
    => /\ raised.kind = "AuthError"
       /\ raised.error.code = "invalid_header"

\* C9: every request to a protected endpoint ends with the operation's own
\* response or with the 401 of the gate, never with an uncaught exception.
C9_OnlyOperationOr401 ==
    pc \in {"GRANTED", "REJECTED", "CRASHED"} => resp \in {"operation", "401"}

\* C10: a claim set without permissions field is rejected with
\* invalid_claims, status 400; one whose permissions lack the required
\* string is rejected with unauthorized, status 401; both are answered 401.
C10_PermissionErrorsDistinct ==
    Past("token-verified") =>
        /\ "permissions" \notin DOMAIN payload[1] =>
              /\ raised = AuthError("invalid_claims",
                                    "Permissions not included in JWT.", 400)
              /\ resp = "401"
        /\ /\ "permissions" \in DOMAIN payload[1]
           /\ permission \notin payload[1]["permissions"]
           => /\ raised = AuthError("unauthorized", "Permission not found.", 401)
              /\ resp = "401"

C10_Witness ==
    /\ pc = "REJECTED"
    /\ payload # <<>>
    /\ "permissions" \notin DOMAIN payload[1]
    /\ raised.status_code = 400
    /\ resp = "401"

----------------------------------------------------------------------------
(* requires_auth.wrapper in several requests at once: the steps of the     *)
(* requests interleave, and the key-set URL may serve a different key set  *)
(* at each fetch.                                                          *)

ConcHeaders ==
    {<<>>, <<<<"Basic", Blank, "tok">>>>, <<<<"Bearer", Blank, "tok">>>>}

ConcKeySets == {<<Key("k1")>>, <<Key("k2")>>}

ConcJwts ==
    [malformed : {FALSE}, header : {[alg |-> ALGORITHMS, kid |-> "k1"]},
     signer : {"k1"}, expired : BOOLEAN,
     claims : {[aud |-> API_AUDIENCE, iss |-> Issuer,
                permissions |-> {"get:actors"}]}]

\* the locals of a call that an exception leaves
ConcLeave(q, r) ==
    [q EXCEPT !.raised = r,
              !.pc = IF r.kind = "AuthError" THEN "REJECTED" ELSE "CRASHED"]

\* request i arrives with Authorization header h at a view requiring p
ConcReceive(i, h, p) ==
    /\ conc[i].pc = "idle"
    /\ conc' = [conc EXCEPT ![i] = [ConcIdle EXCEPT !.pc = "START", !.auth = h,
                                                    !.permission = p]]
    /\ UNCHANGED <<pc, auth, permission, args, token, jwks, jwt, payload,
                   raised, resp, invoked, decodes, fetches, view, body, db,
                   before, response>>

\* token = get_token_auth_header()
ConcExtractToken(i) ==
    /\ conc[i].pc = "START"
    /\ LET q == conc[i]
           r == get_token_auth_header(q.auth)
       IN  conc' = [conc EXCEPT ![i] =
                      IF r.kind = "return"
                      THEN [q EXCEPT !.token = r.value[1],
                                     !.pc = "token-extracted"]
                      ELSE ConcLeave(q, r)]
    /\ UNCHANGED <<pc, auth, permission, args, token, jwks, jwt, payload,
                   raised, resp, invoked, decodes, fetches, view, body, db,
                   before, response>>

\* verify_decode_jwt keeping the key set in a cache that the requests share
ConcFetchJwks_Cached(i, keys) ==
    /\ conc[i].pc = "token-extracted"
    /\ LET q == conc[i]
           others == {j \in Requests \ {i} : conc[j].jwks # <<>>}
       IN  conc' = [conc EXCEPT ![i] =
                      IF others = {}
                      THEN [q EXCEPT !.served = <<keys>>, !.jwks = <<keys>>,
                                     !.fetches = q.fetches + 1,
                                     !.pc = "jwks-fetched"]
                      ELSE [q EXCEPT !.served = <<keys>>,
                                     !.jwks = conc[CHOOSE j \in others : TRUE].jwks,
                                     !.pc = "jwks-fetched"]]
    /\ UNCHANGED <<pc, auth, permission, args, token, jwks, jwt, payload,
                   raised, resp, invoked, decodes, fetches, view, body, db,
                   before, response>>

\* verify_decode_jwt: urlopen, read and json.loads deliver the key set that
\* the URL serves at this moment into the locals jsonurl and jwks
ConcFetchJwks(i, keys) ==
    /\ conc[i].pc = "token-extracted"
    /\ LET q == conc[i] IN
       conc' = [conc EXCEPT ![i] =
                  [q EXCEPT !.served = <<keys>>, !.jwks = <<keys>>,
                            !.fetches = q.fetches + 1,
                            !.pc = "jwks-fetched"]]
    /\ UNCHANGED <<pc, auth, permission, args, token, jwks, jwt, payload,
                   raised, resp, invoked, decodes, fetches, view, body, db,
                   before, response>>

\* verify_decode_jwt: urlopen, read or json.loads raises
ConcFetchJwksFails(i) ==
    /\ conc[i].pc = "token-extracted"
    /\ LET q == conc[i] IN
       conc' = [conc EXCEPT ![i] =
                  ConcLeave([q EXCEPT !.fetches = q.fetches + 1],
                            Raise("URLError"))]
    /\ UNCHANGED <<pc, auth, permission, args, token, jwks, jwt, payload,
                   raised, resp, invoked, decodes, fetches, view, body, db,
                   before, response>>

\* verify_decode_jwt: the rest, on the token string whose content is c
ConcVerifyToken(i, c) ==
    /\ conc[i].pc = "jwks-fetched"
    /\ LET q == conc[i]
           t == Parse(q.token, c)
           v == verify_decode_jwt(t, q.jwks[1]).res
       IN  conc' = [conc EXCEPT ![i] =
                      IF v.kind = "return"
                      THEN [q EXCEPT !.jwt = <<t>>, !.payload = v.value,
                                     !.pc = "token-verified"]
                      ELSE ConcLeave([q EXCEPT !.jwt = <<t>>], v)]
    /\ UNCHANGED <<pc, auth, permission, args, token, jwks, jwt, payload,
                   raised, resp, invoked, decodes, fetches, view, body, db,
                   before, response>>

\* check_permissions(permission, payload)
ConcCheckPermission(i) ==
    /\ conc[i].pc = "token-verified"
    /\ LET q == conc[i]
           r == check_permissions(q.permission, q.payload[1])
       IN  conc' = [conc EXCEPT ![i] =
                      IF r.kind = "return"
                      THEN [q EXCEPT !.pc = "permission-checked"]
                      ELSE ConcLeave(q, r)]
    /\ UNCHANGED <<pc, auth, permission, args, token, jwks, jwt, payload,
                   raised, resp, invoked, decodes, fetches, view, body, db,
                   before, response>>

\* return f(payload, *args, **kwargs)
ConcInvoke(i) ==
    /\ conc[i].pc = "permission-checked"
    /\ LET q == conc[i] IN
       conc' = [conc EXCEPT ![i] =
                  [q EXCEPT !.invoked = Append(q.invoked,
                                               WrapperCall(q.payload[1], <<>>)),
                            !.pc = "GRANTED"]]
    /\ UNCHANGED <<pc, auth, permission, args, token, jwks, jwt, payload,
                   raised, resp, invoked, decodes, fetches, view, body, db,
                   before, response>>

\* the response of request i is sent and its locals are gone
ConcFinish(i) ==
    /\ conc[i].pc \in {"GRANTED", "REJECTED", "CRASHED"}
    /\ conc' = [conc EXCEPT ![i] = ConcIdle]
    /\ UNCHANGED <<pc, auth, permission, args, token, jwks, jwt, payload,
                   raised, resp, invoked, decodes, fetches, view, body, db,
                   before, response>>

NextConc ==
    \/ \E i \in Requests, h \in ConcHeaders, p \in Permissions : ConcReceive(i, h, p)
    \/ \E i \in Requests : ConcExtractToken(i)
    \/ \E i \in Requests, keys \in ConcKeySets : ConcFetchJwks(i, keys)
    \/ \E i \in Requests : ConcFetchJwksFails(i)
    \/ \E i \in Requests, c \in ConcJwts : ConcVerifyToken(i, c)
    \/ \E i \in Requests : ConcCheckPermission(i)
    \/ \E i \in Requests : ConcInvoke(i)
    \/ \E i \in Requests : ConcFinish(i)

SpecConc == Init /\ [][NextConc]_vars

\* the gate run alone on header h for permission p, when the URL serves the
\* key set in served (<<>> when the fetch fails) and the token holds content
GateAlone(h, p, served, content) ==
    LET r1 == get_token_auth_header(h) IN
    IF r1.kind # "return" THEN r1
    ELSE IF served = <<>> THEN Raise("URLError")
    ELSE LET r2 == verify_decode_jwt(content[1], served[1]).res IN
         IF r2.kind # "return" THEN r2
         ELSE check_permissions(p, r2.value[1])

\* how the request ended: the exception that left the wrapper, or the
\* value of the last check when the view was called
Outcome(q) == IF q.pc = "GRANTED" THEN Return(TRUE) ELSE q.raised

\* C13: requests served at once share no state of the gate: a request
\* that verified its token fetched its key set exactly once and used the
\* key set that this fetch delivered, and every request ends as the gate
\* run alone ends on its header, its permission, the key set its own fetch
\* delivered and its token.
C13_OutcomeAsAlone ==
    \A i \in Requests :
        LET q == conc[i] IN
        /\ q.fetches <= 1
        /\ q.jwt # <<>> => q.fetches = 1 /\ q.jwks = q.served
        /\ q.pc \in {"GRANTED", "REJECTED", "CRASHED"} =>
               Outcome(q) = GateAlone(q.auth, q.permission, q.served, q.jwt)

\* two requests in flight with the same header, permission and token, whose
\* fetches delivered different key sets, end differently
C13_Witness ==
    /\ conc[1].pc = "GRANTED"
    /\ conc[2].pc = "REJECTED"
    /\ conc[1].auth = conc[2].auth
    /\ conc[1].permission = conc[2].permission
    /\ conc[1].jwt = conc[2].jwt
    /\ conc[1].served = <<<<Key("k1")>>>>
    /\ conc[2].served = <<<<Key("k2")>>>>
    /\ conc[2].raised.error.description = "Unable to find the appropriate key."

----------------------------------------------------------------------------
(* The handler registered for AuthError, called by Flask with an AuthError *)
(* that reached the routing layer.                                         *)

ErrorCodes ==
    {"authorization_header_missing", "invalid_header", "invalid_claims",
     "unauthorized", "token_expired"}

ErrorDescriptions ==
    {"Authorization header is expected.",
     "Authorization header must start with \"Bearer\".",
     "Token not found.",
     "Authorization header must be bearer token.",
     "Permissions not included in JWT.",
     "Permission not found.",
     "Authorization malformed.",
     "Token expired.",
     "Incorrect claims. Please, check the audience and issuer.",
     "Unable to parse authentication token.",
     "Unable to find the appropriate key."}

ErrorStatuses == {400, 401}

AuthErrors ==
    {AuthError(c, d, s) : c \in ErrorCodes, d \in ErrorDescriptions,
                          s \in ErrorStatuses}

\* return jsonify({"success": False, "error": error.error,
\*                 "message": error.status_code}), error.error
\* Flask reads a dict in the second place of the returned pair as the
\* headers of the response, whose status stays that of jsonify, 200
handle_invalid_usage(error) ==
    [status |-> 200,
     json |-> <<[success |-> FALSE, error |-> error.error,
                 message |-> error.status_code]>>,
     headers |-> error.error]

\* an AuthError e is raised where no except clause catches it
RaiseAuthError(e) ==
    /\ pc = "idle"
    /\ raised' = e
    /\ pc' = "raised"
    /\ UNCHANGED <<auth, permission, args, token, jwks, jwt, payload, resp,
                   invoked, decodes, fetches, view, body, db, before, response,
                   conc>>

\* Flask calls the handler of the exception's class
HandleInvalidUsage ==
    /\ pc = "raised"
    /\ response' = handle_invalid_usage(raised)
    /\ pc' = "handled"
    /\ UNCHANGED <<auth, permission, args, token, jwks, jwt, payload, raised,
                   resp, invoked, decodes, fetches, view, body, db, before,
                   conc>>

\* the handler's response is sent
Respond ==
    /\ pc = "handled"
    /\ pc' = "idle"
    /\ raised' = NotRaised
    /\ response' = NoResponse
    /\ UNCHANGED <<auth, permission, args, token, jwks, jwt, payload, resp,
                   invoked, decodes, fetches, view, body, db, before, conc>>

NextErr ==
    \/ \E e \in AuthErrors : RaiseAuthError(e)
    \/ HandleInvalidUsage
    \/ Respond

SpecErr == Init /\ [][NextErr]_vars

----------------------------------------------------------------------------
(* Properties of the catalog behind the gate *)

WritingViews ==
    {"create_actor", "modify_actor", "delete_actor",
     "create_movie", "modify_movie", "delete_movie"}

\* C11: a POST, PATCH or DELETE that the gate rejects leaves the stored
\* actors and movies and all their fields as they were when it arrived; the
\* view was not called and the body was not read.
C11_RejectedLeavesCatalog ==
    pc = "REJECTED" /\ view \in WritingViews =>
        /\ db = before
        /\ invoked = <<>>
        /\ body = <<>>

C11_Witness ==
    /\ pc = "REJECTED"
    /\ view = "delete_actor"
    /\ args[1] \in DOMAIN db.actors
    /\ payload # <<>>
    /\ raised.error.code = "unauthorized"

\* the response is the JSON error body of this status
ErrorResponse(status, message) ==
    /\ response.status = status
    /\ response.json # <<>>
    /\ response.json[1].success = FALSE
    /\ response.json[1].message = message

\* the authorized request names an id that no stored record has
UnknownId ==
    \/ view \in {"modify_actor", "delete_actor"} /\ args[1] \notin DOMAIN before.actors
    \/ view \in {"modify_movie", "delete_movie"} /\ args[1] \notin DOMAIN before.movies

\* C15: an authorized PATCH or DELETE whose id matches no stored record is
\* answered 404, success false, "resource not found", and leaves the store
\* unchanged.
C15_UnknownIdIs404 ==
    pc = "GRANTED" /\ UnknownId =>
        /\ ErrorResponse(404, "resource not found")
        /\ db = before

\* a second DELETE of an actor that was stored and deleted
C15_Witness ==
    /\ pc = "GRANTED"
    /\ view = "delete_actor"
    /\ args[1] <= before.actor_seq
    /\ args[1] \notin DOMAIN before.actors
    /\ response.status = 404

\* the body of a POST fails validation: a required field is missing, the
\* name or title is stored already, the date does not parse, or the gender
\* is none of M, F, X in either case
PostBodyInvalid ==
    \/ /\ view = "create_actor"
       /\ \/ body[1].name = <<>>
          \/ body[1].birth_date = <<>>
          \/ body[1].gender = <<>>
          \/ \E i \in DOMAIN before.actors : before.actors[i].name = body[1].name[1]
          \/ ~date_valid(body[1].birth_date[1])
          \/ body[1].gender[1] \notin {"M", "F", "X", "m", "f", "x"}
    \/ /\ view = "create_movie"
       /\ \/ body[1].title = <<>>
          \/ body[1].release_date = <<>>
          \/ \E i \in DOMAIN before.movies : before.movies[i].title = body[1].title[1]
          \/ ~date_valid(body[1].release_date[1])

\* the body of a PATCH fails validation: it has a date that does not parse
\* or a gender that is none of M, F, X in either case
PatchBodyInvalid ==
    \/ /\ view = "modify_actor"
       /\ \/ body[1].birth_date # <<>> /\ ~date_valid(body[1].birth_date[1])
          \/ /\ body[1].gender # <<>>
             /\ body[1].gender[1] \notin {"M", "F", "X", "m", "f", "x"}
    \/ /\ view = "modify_movie"
       /\ body[1].release_date # <<>>
       /\ ~date_valid(body[1].release_date[1])

C17_NoDuplicatesIgnoringCase ==
    /\ \A i, j \in DOMAIN db.actors :
          i # j => LowerText(db.actors[i].name) # LowerText(db.actors[j].name)
    /\ \A i, j \in DOMAIN db.movies :
          i # j => LowerText(db.movies[i].title) # LowerText(db.movies[j].title)

----------------------------------------------------------------------------
(* The order of the stages of the gate *)

\* the positions a request can move to from each position
StageOrder ==
    /\ pc = "START" => pc' \in {"token-extracted", "REJECTED", "CRASHED"}
    /\ pc = "token-extracted" => pc' \in {"jwks-fetched", "CRASHED"}
    /\ pc = "jwks-fetched" => pc' \in {"token-verified", "REJECTED", "CRASHED"}
    /\ pc = "token-verified" => pc' \in {"permission-checked", "REJECTED"}
    /\ pc = "permission-checked" => pc' = "GRANTED"
    /\ pc \in {"REJECTED", "CRASHED", "GRANTED"} => pc' = "idle"

\* a stage has run only if every earlier stage succeeded
EarlierStagesSucceeded ==
    /\ fetches > 0 => token # <<>>
    /\ jwt # <<>> => jwks # <<>> /\ fetches > 0
    /\ payload # <<>> => jwt # <<>>
    /\ pc \in {"permission-checked", "GRANTED"} => payload # <<>> /\ Permitted
    /\ invoked # <<>> => pc = "GRANTED"

\* no stage ran twice for one request
NothingRetried ==
    /\ fetches <= 1
    /\ decodes <= 1
    /\ Len(invoked) <= 1

\* C12: a request passes the stages in the order extract token, verify
\* token, check permission, grant; no stage runs unless every earlier stage
\* succeeded, so a request rejected at token extraction made no key-set
\* fetch; a rejected request moves only to its end, and no stage runs twice.
C12_StagesInOrder ==
    /\ [][StageOrder]_vars
    /\ [](EarlierStagesSucceeded /\ NothingRetried)
    /\ [](pc = "REJECTED" /\ token = <<>> => fetches = 0 /\ jwks = <<>>)

\* a header of another scheme, such as "Basic tok", rejected at extraction
C12_Witness ==
    /\ pc = "REJECTED"
    /\ auth = <<<<"Basic", Blank, "tok">>>>
    /\ raised.error.code = "invalid_header"
    /\ token = <<>>
    /\ fetches = 0

====
